---- MODULE Spec2Model ----
(***************************************************************************)
(* Shopping cart provider (context/ShoppingCartContext.tsx), its           *)
(* persistence hook (hooks/useLocalStorage.ts), the type guards and lookup *)
(* utilities (utilities/typeGuards.ts), the catalog (data/storeItems.ts)   *)
(* and the total of components/ShoppingCart.tsx.                           *)
(*                                                                         *)
(* JavaScript values are tagged records.  A number is n, or n + 1/2 when   *)
(* frac is TRUE, so that non-integer numbers exist in the model.  Stored   *)
(* text is a sequence of JSON tokens; JSONstringify and JSONparse turn     *)
(* values into token sequences and back.                                   *)
(***************************************************************************)
EXTENDS Integers, Sequences, FiniteSets, TLC

\* ------------------------------------------------------------------ bounds
MaxId == 1          \* identifiers passed to the cart operations: 1..MaxId
MaxQty == 2         \* increaseCartQuantity is not called on a line already at MaxQty
MaxStoredLen == 2   \* longest array found in storage when the provider mounts
MaxFaults == 1      \* localStorage calls that throw in one run
MaxLen == 2         \* longest array passed to a guard or lookup utility called on its own

Ids == 1..MaxId

\* ------------------------------------------------------- JavaScript values
Undefined == [t |-> "undefined"]
Null == [t |-> "null"]
Num(n) == [t |-> "number", n |-> n, frac |-> FALSE]
Half(n) == [t |-> "number", n |-> n, frac |-> TRUE]
Str(s) == [t |-> "string", s |-> s]
Arr(a) == [t |-> "array", a |-> a]
Obj(k, v) == [t |-> "object", k |-> k, v |-> v]
NaN == [t |-> "NaN"]
Infinity == [t |-> "Infinity"]
Bool(b) == [t |-> "boolean", b |-> b]
Fn(name) == [t |-> "function", name |-> name]
\* () => v
FnReturning(v) == [t |-> "function", returns |-> v]

TypeOf(value) ==
    IF value.t \in {"null", "array", "object"} THEN "object"
    ELSE IF value.t \in {"NaN", "Infinity"} THEN "number"
    ELSE value.t

ArrayIsArray(value) == value.t = "array"

NumberIsInteger(value) == value.t = "number" /\ ~value.frac

NumberIsFinite(value) == value.t = "number"

\* value > 0 on numbers
GreaterThanZero(value) ==
    IF value.t = "number" THEN value.n > 0 \/ (value.n = 0 /\ value.frac)
    ELSE value.t = "Infinity"

\* value >= 0 on numbers
AtLeastZero(value) ==
    IF value.t = "number" THEN value.n >= 0 ELSE value.t = "Infinity"

\* value < 0 on numbers
LessThanZero(value) == value.t = "number" /\ value.n < 0

\* a === b on primitive values: NaN equals nothing, itself included
StrictEquals(a, b) == a.t # "NaN" /\ a = b

\* key in value
HasKey(key, value) ==
    value.t = "object" /\ \E i \in 1..Len(value.k) : value.k[i] = key

\* value[key]
Get(value, key) ==
    IF HasKey(key, value)
    THEN value.v[CHOOSE i \in 1..Len(value.k) : value.k[i] = key]
    ELSE Undefined

\* { ...item, [key]: val }
SpreadWith(item, key, val) ==
    IF HasKey(key, item)
    THEN Obj(item.k, [i \in 1..Len(item.k) |-> IF item.k[i] = key THEN val ELSE item.v[i]])
    ELSE Obj(Append(item.k, key), Append(item.v, val))

\* { id, quantity: q }
CartItem(id, q) == Obj(<<"id", "quantity">>, <<id, q>>)

\* ------------------------------------------------------------- JSON text
P(c) == [k |-> "punct", c |-> c]
TNum(n, frac) == [k |-> "number", n |-> n, frac |-> frac]
TStr(s) == [k |-> "string", s |-> s]
TNull == [k |-> "null"]
TWord(s) == [k |-> "word", s |-> s]    \* bare text that is no JSON token

IsP(tok, c) == tok.k = "punct" /\ tok.c = c

RECURSIVE JSONstringify(_)
RECURSIVE StringifyElements(_, _)
RECURSIVE StringifyMembers(_, _, _)

\* elements a[i..] of an array, comma separated; undefined is written as null
StringifyElements(a, i) ==
    IF i > Len(a) THEN <<>>
    ELSE (IF i > 1 THEN <<P(",")>> ELSE <<>>)
         \o (IF a[i].t = "undefined" THEN <<TNull>> ELSE JSONstringify(a[i]))
         \o StringifyElements(a, i + 1)

\* members i.. of an object; a member whose value is undefined is left out
StringifyMembers(o, i, first) ==
    IF i > Len(o.k) THEN <<>>
    ELSE IF o.v[i].t = "undefined" THEN StringifyMembers(o, i + 1, first)
    ELSE (IF first THEN <<>> ELSE <<P(",")>>)
         \o <<TStr(o.k[i]), P(":")>> \o JSONstringify(o.v[i])
         \o StringifyMembers(o, i + 1, FALSE)

JSONstringify(value) ==
    CASE value.t \in {"null", "NaN", "Infinity"} -> <<TNull>>
      [] value.t = "number" -> <<TNum(value.n, value.frac)>>
      [] value.t = "string" -> <<TStr(value.s)>>
      [] value.t = "array" -> <<P("[")>> \o StringifyElements(value.a, 1) \o <<P("]")>>
      [] value.t = "object" -> <<P("{")>> \o StringifyMembers(value, 1, TRUE) \o <<P("}")>>

ParseFail == [ok |-> FALSE, v |-> Undefined, next |-> 0]
ParseOk(v, next) == [ok |-> TRUE, v |-> v, next |-> next]

RECURSIVE ParseValue(_, _)
RECURSIVE ParseElements(_, _, _)
RECURSIVE ParseMembers(_, _, _)

\* elements of an array from token i on, after "[" or ","
ParseElements(s, i, acc) ==
    LET r == ParseValue(s, i) IN
    IF ~r.ok \/ r.next > Len(s) THEN ParseFail
    ELSE IF IsP(s[r.next], ",") THEN ParseElements(s, r.next + 1, Append(acc, r.v))
    ELSE IF IsP(s[r.next], "]") THEN ParseOk(Arr(Append(acc, r.v)), r.next + 1)
    ELSE ParseFail

\* members of an object from token i on, after "{" or ","; a repeated key
\* keeps its place and takes the later value
ParseMembers(s, i, acc) ==
    IF i + 1 > Len(s) \/ s[i].k # "string" \/ ~IsP(s[i + 1], ":") THEN ParseFail
    ELSE LET r == ParseValue(s, i + 2)
             o == SpreadWith(acc, s[i].s, r.v) IN
         IF ~r.ok \/ r.next > Len(s) THEN ParseFail
         ELSE IF IsP(s[r.next], ",") THEN ParseMembers(s, r.next + 1, o)
         ELSE IF IsP(s[r.next], "}") THEN ParseOk(o, r.next + 1)
         ELSE ParseFail

ParseValue(s, i) ==
    IF i > Len(s) THEN ParseFail
    ELSE CASE s[i].k = "null" -> ParseOk(Null, i + 1)
           [] s[i].k = "number" -> ParseOk([t |-> "number", n |-> s[i].n, frac |-> s[i].frac], i + 1)
           [] s[i].k = "string" -> ParseOk(Str(s[i].s), i + 1)
           [] IsP(s[i], "[") ->
                IF i + 1 <= Len(s) /\ IsP(s[i + 1], "]")
                THEN ParseOk(Arr(<<>>), i + 2)
                ELSE ParseElements(s, i + 1, <<>>)
           [] IsP(s[i], "{") ->
                IF i + 1 <= Len(s) /\ IsP(s[i + 1], "}")
                THEN ParseOk(Obj(<<>>, <<>>), i + 2)
                ELSE ParseMembers(s, i + 1, Obj(<<>>, <<>>))
           [] OTHER -> ParseFail

\* JSON.parse: ok is FALSE when it throws a SyntaxError
JSONparse(text) ==
    LET r == ParseValue(text, 1) IN
    IF r.ok /\ r.next = Len(text) + 1 THEN [ok |-> TRUE, v |-> r.v]
    ELSE [ok |-> FALSE, v |-> Undefined]

\* ------------------------------------------------------------ type guards
\* how a call ends: it returns v, or it throws
Return(v) == [threw |-> FALSE, v |-> v]
Throw == [threw |-> TRUE, v |-> Undefined]

isCartItem(value) ==
    /\ TypeOf(value) = "object"
    /\ value # Null
    /\ HasKey("id", value)
    /\ HasKey("quantity", value)
    /\ TypeOf(Get(value, "id")) = "number"
    /\ TypeOf(Get(value, "quantity")) = "number"
    /\ GreaterThanZero(Get(value, "quantity"))
    /\ NumberIsInteger(Get(value, "id"))
    /\ NumberIsInteger(Get(value, "quantity"))

isCartItemArray(value) ==
    IF ~ArrayIsArray(value) THEN FALSE
    ELSE LET invalidItems == SelectSeq(value.a, LAMBDA item : ~isCartItem(item))
         IN Len(invalidItems) = 0

\* s.trim() on the strings of the model: " " and " Car " carry white space
trim(s) ==
    CASE s = " " -> ""
      [] s = " Car " -> "Car"
      [] OTHER -> s

isStoreItem(value) ==
    IF TypeOf(value) # "object" \/ value = Null THEN FALSE
    ELSE /\ HasKey("id", value)
         /\ HasKey("name", value)
         /\ HasKey("price", value)
         /\ HasKey("imgUrl", value)
         /\ TypeOf(Get(value, "id")) = "number"
         /\ TypeOf(Get(value, "name")) = "string"
         /\ TypeOf(Get(value, "price")) = "number"
         /\ TypeOf(Get(value, "imgUrl")) = "string"
         /\ NumberIsInteger(Get(value, "id"))
         /\ GreaterThanZero(Get(value, "id"))
         /\ Len(trim(Get(value, "name").s)) > 0
         /\ AtLeastZero(Get(value, "price"))
         /\ Len(trim(Get(value, "imgUrl").s)) > 0

\* value <= 0 on numbers
AtMostZero(value) == value.t = "number" /\ (value.n < 0 \/ (value.n = 0 /\ ~value.frac))

isValidStoreItemProps(props) ==
    IF TypeOf(props) # "object" \/ props = Null THEN FALSE
    ELSE IF \/ ~HasKey("id", props)
            \/ TypeOf(Get(props, "id")) # "number"
            \/ ~NumberIsInteger(Get(props, "id"))
            \/ AtMostZero(Get(props, "id")) THEN FALSE
    ELSE IF \/ ~HasKey("name", props)
            \/ TypeOf(Get(props, "name")) # "string"
            \/ Len(trim(Get(props, "name").s)) = 0 THEN FALSE
    ELSE IF \/ ~HasKey("price", props)
            \/ TypeOf(Get(props, "price")) # "number"
            \/ LessThanZero(Get(props, "price")) THEN FALSE
    ELSE IF \/ ~HasKey("imgUrl", props)
            \/ TypeOf(Get(props, "imgUrl")) # "string"
            \/ Len(trim(Get(props, "imgUrl").s)) = 0 THEN FALSE
    ELSE TRUE

isStoreItemArrayNoDuplicateCheck(value) ==
    IF ~ArrayIsArray(value) THEN FALSE
    ELSE IF Len(value.a) = 0 THEN FALSE
    ELSE Len(SelectSeq(value.a, LAMBDA item : ~isStoreItem(item))) = 0

isStoreItemArray(value) ==
    IF ~ArrayIsArray(value) THEN FALSE
    ELSE IF Len(value.a) = 0 THEN FALSE
    ELSE LET invalidItems == SelectSeq(value.a, LAMBDA item : ~isStoreItem(item))
             ids == [i \in 1..Len(value.a) |-> Get(value.a[i], "id")]
             uniqueIds == {ids[i] : i \in 1..Len(ids)}
         IN IF Len(invalidItems) > 0 THEN FALSE
            ELSE IF Len(ids) # Cardinality(uniqueIds) THEN FALSE
            ELSE TRUE

validateStoreItemsAlwaysReturns(items) == Return(items)

validateStoreItems(items) ==
    IF ~isStoreItemArray(items) THEN Throw ELSE Return(items)

requiredMethods ==
    <<"openCart", "closeCart", "getItemQuantity", "increaseCartQuantity",
      "decreaseCartQuantity", "removeFromCart">>

isShoppingCartContextAnyFiniteQuantity(value) ==
    IF TypeOf(value) # "object" \/ value = Null THEN FALSE
    ELSE IF \E m \in 1..Len(requiredMethods) :
                \/ ~HasKey(requiredMethods[m], value)
                \/ TypeOf(Get(value, requiredMethods[m])) # "function" THEN FALSE
    ELSE IF ~HasKey("cartQuantity", value) THEN FALSE
    ELSE IF TypeOf(Get(value, "cartQuantity")) # "number" THEN FALSE
    ELSE IF ~NumberIsFinite(Get(value, "cartQuantity")) THEN FALSE
    ELSE IF ~HasKey("cartItems", value) THEN FALSE
    ELSE IF ~ArrayIsArray(Get(value, "cartItems")) THEN FALSE
    ELSE IF ~isCartItemArray(Get(value, "cartItems")) THEN FALSE
    ELSE TRUE

\* the for loop returns false at the first method that is missing or is no
\* function; each later test is reached only when the tests before it passed
isShoppingCartContext(value) ==
    IF TypeOf(value) # "object" \/ value = Null THEN FALSE
    ELSE IF \E m \in 1..Len(requiredMethods) :
                \/ ~HasKey(requiredMethods[m], value)
                \/ TypeOf(Get(value, requiredMethods[m])) # "function" THEN FALSE
    ELSE IF ~HasKey("cartQuantity", value) THEN FALSE
    ELSE IF TypeOf(Get(value, "cartQuantity")) # "number" THEN FALSE
    ELSE IF \/ ~NumberIsFinite(Get(value, "cartQuantity"))
            \/ LessThanZero(Get(value, "cartQuantity")) THEN FALSE
    ELSE IF ~HasKey("cartItems", value) THEN FALSE
    ELSE IF ~ArrayIsArray(Get(value, "cartItems")) THEN FALSE
    ELSE IF ~isCartItemArray(Get(value, "cartItems")) THEN FALSE
    ELSE TRUE

\* what one call of isShoppingCartContext writes with console.error: every
\* console.error is followed by return false, so at most one line
isShoppingCartContextErrors(value) ==
    IF TypeOf(value) # "object" \/ value = Null THEN <<<<"Expected object, received">>>>
    ELSE LET failing == {m \in 1..Len(requiredMethods) :
                            \/ ~HasKey(requiredMethods[m], value)
                            \/ TypeOf(Get(value, requiredMethods[m])) # "function"}
             first == CHOOSE m \in failing : \A n \in failing : m <= n
         IN IF failing # {}
            THEN IF ~HasKey(requiredMethods[first], value)
                 THEN <<<<"Missing required method", requiredMethods[first]>>>>
                 ELSE <<<<"is not a function", requiredMethods[first]>>>>
            ELSE IF ~HasKey("cartQuantity", value)
                 THEN <<<<"Missing cartQuantity property">>>>
            ELSE IF TypeOf(Get(value, "cartQuantity")) # "number"
                 THEN <<<<"cartQuantity must be a number">>>>
            ELSE IF \/ ~NumberIsFinite(Get(value, "cartQuantity"))
                    \/ LessThanZero(Get(value, "cartQuantity"))
                 THEN <<<<"cartQuantity must be a non-negative finite number">>>>
            ELSE IF ~HasKey("cartItems", value)
                 THEN <<<<"Missing cartItems property">>>>
            ELSE IF ~ArrayIsArray(Get(value, "cartItems"))
                 THEN <<<<"cartItems must be an array">>>>
            ELSE IF ~isCartItemArray(Get(value, "cartItems"))
                 THEN <<<<"cartItems array contains invalid items">>>>
            ELSE <<>>

assertShoppingCartContextNeverThrows(context) == Return(Undefined)

assertShoppingCartContext(context) ==
    IF ~isShoppingCartContext(context) THEN Throw ELSE Return(Undefined)

\* f(): calling what is no function is a TypeError
Invoke(f) ==
    IF f.t # "function" THEN Throw
    ELSE IF "returns" \in DOMAIN f THEN Return(f.returns)
    ELSE Return(Undefined)

isFunctionReturning(value) == TypeOf(value) = "function"

resolveValue(value) ==
    IF isFunctionReturning(value) THEN Invoke(value) ELSE Return(value)

isDefined(value) == value # Null /\ value # Undefined

exists(value) == isDefined(value)

isNullishOnlyNull(value) == value = Null

isNullish(value) == value = Null \/ value = Undefined

\* items.find(item => item.id === id)
findById(items, id) ==
    IF \E i \in 1..Len(items) : StrictEquals(Get(items[i], "id"), id)
    THEN items[CHOOSE i \in 1..Len(items) :
                   /\ StrictEquals(Get(items[i], "id"), id)
                   /\ \A j \in 1..(i - 1) : ~StrictEquals(Get(items[j], "id"), id)]
    ELSE Undefined

findByIdOrThrowNeverThrows(items, id) == Return(findById(items, id))

findByIdOrThrow(items, id) ==
    LET item == findById(items, id)
    IN IF ~isDefined(item) THEN Throw ELSE Return(item)

findByIdOrDefaultAlwaysDefault(items, id, defaultValue) == defaultValue

findByIdOrDefault(items, id, defaultValue) ==
    LET item == findById(items, id)
    IN IF isDefined(item) THEN item ELSE defaultValue

hasItemWithIdFirstOnly(items, id) ==
    Len(items) > 0 /\ StrictEquals(Get(items[1], "id"), id)

\* items.some(item => item.id === id)
hasItemWithId(items, id) == \E i \in 1..Len(items) : StrictEquals(Get(items[i], "id"), id)

\* number + number
Plus(a, b) ==
    [t |-> "number",
     n |-> a.n + b.n + (IF a.frac /\ b.frac THEN 1 ELSE 0),
     frac |-> (a.frac # b.frac)]

\* ------------------------------------------------------------------ state
VARIABLES
    storage,        \* localStorage slot "shopping-cart": present flag and text
    mounted,        \* the provider is mounted
    isOpen,         \* useState(false) of the provider
    cartItems,      \* the value state of useLocalStorage: the array's elements
    ctx,            \* the value handed to ShoppingCartContext.Provider at the last render
    effectPending,  \* the useEffect of useLocalStorage is scheduled and has not run
    storageFault,   \* the last localStorage call threw
    escaped,        \* an exception left the last hook callback
    lastOp,         \* the last operation that set cartItems
    before,         \* cartItems before lastOp
    faults,         \* localStorage calls that threw so far
    call,           \* a guard or helper called on its own: name and arguments
    result          \* what that call returned

vars == <<storage, mounted, isOpen, cartItems, ctx, effectPending,
          storageFault, escaped, lastOp, before, faults, call, result>>

\* ----------------------------------------------------------- useLocalStorage
\* the initialValue argument the provider passes: []
initialValue == Arr(<<>>)

\* useStateInitializer with the catch clause left out
useStateInitializerNoCatch(stored, getItemThrows) ==
    IF getItemThrows THEN Throw
    ELSE IF stored.present
         THEN LET parsed == JSONparse(stored.text) IN
              IF ~parsed.ok THEN Throw
              ELSE IF isCartItemArray(parsed.v) THEN Return(parsed.v)
              ELSE Return(initialValue)
         ELSE Return(initialValue)

\* useLocalStorageInitializer that hands initialValue back as it is
useLocalStorageInitializerNoCall(stored, getItemThrows, init) ==
    IF getItemThrows THEN Return(init)
    ELSE IF stored.present
         THEN LET parsed == JSONparse(stored.text) IN
              IF parsed.ok /\ isCartItemArray(parsed.v) THEN Return(parsed.v)
              ELSE Return(init)
         ELSE Return(init)

\* the callback given to useState, for any initialValue argument and the
\* typeGuard isCartItemArray: try block, then the catch clause
useLocalStorageInitializer(stored, getItemThrows, init) ==
    LET tried ==
            IF getItemThrows THEN Throw
            ELSE LET fallThrough ==
                         IF TypeOf(init) = "function" THEN Invoke(init) ELSE Return(init)
                 IN IF stored.present
                    THEN LET parsed == JSONparse(stored.text) IN
                         IF ~parsed.ok THEN Throw
                         ELSE IF isCartItemArray(parsed.v) THEN Return(parsed.v)
                         ELSE fallThrough
                    ELSE fallThrough
    IN IF tried.threw
       THEN (IF TypeOf(init) = "function" THEN Invoke(init) ELSE Return(init))
       ELSE tried

\* the callback given to useState with the provider's arguments
\* useStateInitializer that never reads the slot
useStateInitializerIgnoresStorage(stored, getItemThrows) == Return(initialValue)

\* useStateInitializer that returns a parsed array without asking typeGuard
useStateInitializerAnyArray(stored, getItemThrows) ==
    LET parsed == JSONparse(stored.text) IN
    IF ~getItemThrows /\ stored.present /\ parsed.ok /\ ArrayIsArray(parsed.v)
    THEN Return(parsed.v)
    ELSE useLocalStorageInitializer(stored, getItemThrows, initialValue)

useStateInitializer(stored, getItemThrows) ==
    useLocalStorageInitializer(stored, getItemThrows, initialValue)

\* useEffectCallback with the catch clause left out
useEffectCallbackNoCatch(stored, value, setItemThrows) ==
    IF setItemThrows THEN Throw
    ELSE Return([present |-> TRUE, text |-> JSONstringify(Arr(value))])

\* useEffectCallback that writes only a collection with lines in it
useEffectCallbackSkipEmpty(stored, value, setItemThrows) ==
    IF setItemThrows \/ value = <<>> THEN Return(stored)
    ELSE Return([present |-> TRUE, text |-> JSONstringify(Arr(value))])

\* useEffectCallback that writes String(value) in place of JSON.stringify(value)
useEffectCallbackNoStringify(stored, value, setItemThrows) ==
    IF setItemThrows THEN Return(stored)
    ELSE Return([present |-> TRUE,
                 text |-> [i \in 1..Len(value) |-> TWord("[object Object]")]])

\* the callback given to useEffect: the slot after it ran, and whether it threw
useEffectCallback(stored, value, setItemThrows) ==
    LET tried ==
            IF setItemThrows THEN Throw
            ELSE Return([present |-> TRUE, text |-> JSONstringify(Arr(value))])
    IN IF tried.threw THEN Return(stored) ELSE tried

\* ------------------------------------------------------ ShoppingCartProvider
RECURSIVE Reduce(_, _, _)
Reduce(items, i, quantity) ==
    IF i > Len(items) THEN quantity
    ELSE Reduce(items, i + 1, Plus(Get(items[i], "quantity"), quantity))

\* cartQuantity that counts the lines
cartQuantityCountingLines(items) == Num(Len(items))

cartQuantity(items) == Reduce(items, 1, Num(0))

getItemQuantity(items, id) ==
    LET item == findById(items, id) IN
    IF isDefined(item) THEN Get(item, "quantity") ELSE Num(0)

\* increaseUpdater without the hasItemWithId test
increaseUpdaterAlwaysAppend(currItems, id) ==
    Append(currItems, CartItem(id, Num(1)))

\* increaseUpdater whose new line starts at quantity 0
increaseUpdaterNewLineAtZero(currItems, id) ==
    IF ~hasItemWithId(currItems, id)
    THEN Append(currItems, CartItem(id, Num(0)))
    ELSE [i \in 1..Len(currItems) |->
            IF StrictEquals(Get(currItems[i], "id"), id)
            THEN SpreadWith(currItems[i], "quantity",
                            Plus(Get(currItems[i], "quantity"), Num(1)))
            ELSE currItems[i]]

increaseUpdater(currItems, id) ==
    IF ~hasItemWithId(currItems, id)
    THEN Append(currItems, CartItem(id, Num(1)))
    ELSE [i \in 1..Len(currItems) |->
            IF StrictEquals(Get(currItems[i], "id"), id)
            THEN SpreadWith(currItems[i], "quantity",
                            Plus(Get(currItems[i], "quantity"), Num(1)))
            ELSE currItems[i]]

\* decreaseUpdater without the branch that filters the line out
decreaseUpdaterNoRemoval(currItems, id) ==
    [i \in 1..Len(currItems) |->
        IF StrictEquals(Get(currItems[i], "id"), id)
        THEN SpreadWith(currItems[i], "quantity",
                        Plus(Get(currItems[i], "quantity"), Num(-1)))
        ELSE currItems[i]]

\* decreaseUpdater whose removal filters on the quantity instead of the id
decreaseUpdaterFilterByQuantity(currItems, id) ==
    LET item == findById(currItems, id) IN
    IF isDefined(item) /\ Get(item, "quantity") = Num(1)
    THEN SelectSeq(currItems, LAMBDA it : Get(it, "quantity") # Num(1))
    ELSE [i \in 1..Len(currItems) |->
            IF StrictEquals(Get(currItems[i], "id"), id)
            THEN SpreadWith(currItems[i], "quantity",
                            Plus(Get(currItems[i], "quantity"), Num(-1)))
            ELSE currItems[i]]

decreaseUpdater(currItems, id) ==
    LET item == findById(currItems, id) IN
    IF isDefined(item) /\ Get(item, "quantity") = Num(1)
    THEN SelectSeq(currItems, LAMBDA it : ~StrictEquals(Get(it, "id"), id))
    ELSE [i \in 1..Len(currItems) |->
            IF StrictEquals(Get(currItems[i], "id"), id)
            THEN SpreadWith(currItems[i], "quantity",
                            Plus(Get(currItems[i], "quantity"), Num(-1)))
            ELSE currItems[i]]

\* removeUpdater that does what decreaseCartQuantity does
removeUpdaterAsDecrease(currItems, id) == decreaseUpdater(currItems, id)

removeUpdater(currItems, id) ==
    SelectSeq(currItems, LAMBDA it : ~StrictEquals(Get(it, "id"), id))

\* the value prop of ShoppingCartContext.Provider
ProviderValue(items) ==
    [provided |-> TRUE, cartQuantity |-> cartQuantity(items), cartItems |-> items]

NoProviderValue == [provided |-> FALSE, cartQuantity |-> Undefined, cartItems |-> <<>>]

\* the object the provider hands to ShoppingCartContext.Provider
ContextObject(quantity, items) ==
    Obj(requiredMethods \o <<"cartQuantity", "cartItems">>,
        [m \in 1..Len(requiredMethods) |-> Fn(requiredMethods[m])] \o <<quantity, items>>)

\* useContext(ShoppingCartContext): the nearest Provider's value, or the
\* default undefined of createContext when there is no Provider above
useContext(value) ==
    IF value.provided THEN ContextObject(value.cartQuantity, Arr(value.cartItems))
    ELSE Undefined

useShoppingCart(value) ==
    LET context == useContext(value)
    IN IF assertShoppingCartContext(context).threw THEN Throw ELSE Return(context)

\* the provider renders <ShoppingCart>, whose first statement is
\* useShoppingCart(); no error boundary is above it
RenderThrows(items) == useShoppingCart(ProviderValue(items)).threw

\* ------------------------------------------------------------ ShoppingCart
\* number * number, one of the two an integer
Times(a, b) ==
    IF ~b.frac
    THEN [t |-> "number",
          n |-> a.n * b.n + (IF a.frac THEN b.n \div 2 ELSE 0),
          frac |-> (a.frac /\ b.n % 2 = 1)]
    ELSE [t |-> "number",
          n |-> a.n * b.n + (a.n \div 2),
          frac |-> (a.n % 2 = 1)]

RECURSIVE totalNoGuard(_, _, _, _)
RECURSIVE total(_, _, _, _)

\* without the isDefined test item.price is read from undefined, a TypeError
totalNoGuard(items, storeItems, i, acc) ==
    IF i > Len(items) THEN Return(acc)
    ELSE LET cartItem == items[i]
             item == findById(storeItems, Get(cartItem, "id"))
         IN IF ~isDefined(item) THEN Throw
            ELSE totalNoGuard(items, storeItems, i + 1,
                     Plus(acc, Times(Get(item, "price"), Get(cartItem, "quantity"))))

\* cartItems.reduce((total, cartItem) => ..., 0) from element i on, acc so far
total(items, storeItems, i, acc) ==
    IF i > Len(items) THEN Return(acc)
    ELSE LET cartItem == items[i]
             item == findById(storeItems, Get(cartItem, "id"))
         IN IF ~isDefined(item) THEN total(items, storeItems, i + 1, acc)
            ELSE total(items, storeItems, i + 1,
                     Plus(acc, Times(Get(item, "price"), Get(cartItem, "quantity"))))

\* ---------------------------------------------------------- stored values
StoredElems ==
    {CartItem(Num(1), Num(1)), CartItem(Num(1), Num(2)),
     Obj(<<"quantity", "id", "note">>, <<Num(1), Num(2), Str("gift")>>),
     CartItem(Num(1), Num(0)), Null}

StoredValues ==
    {Arr(a) : a \in UNION {[1..n -> StoredElems] : n \in 0..MaxStoredLen}}
    \cup {Obj(<<"not">>, <<Str("an array")>>), Null, Num(7), Str("cart")}

StoredTexts ==
    {JSONstringify(v) : v \in StoredValues}
    \cup {<<TWord("undefined")>>, <<>>,
          <<P("["), P("{"), TStr("id"), P(":"), TNum(1, FALSE)>>,
          <<P("["), TNum(1, FALSE), P(","), P("]")>>}

Absent == [present |-> FALSE, text |-> <<>>]

\* the slot once JSON.stringify(items) was written to it
SlotOf(items) == [present |-> TRUE, text |-> JSONstringify(Arr(items))]

NoOp == [op |-> "none", id |-> Undefined]
NoCall == [fn |-> "none"]
NoResult == [done |-> FALSE]

\* whether the next localStorage call may throw
Throws == IF faults < MaxFaults THEN BOOLEAN ELSE {FALSE}

\* ----------------------------------------------------------------- actions
Init ==
    /\ storage \in {Absent} \cup {[present |-> TRUE, text |-> x] : x \in StoredTexts}
    /\ mounted = FALSE
    /\ isOpen = FALSE
    /\ cartItems = <<>>
    /\ ctx = NoProviderValue
    /\ effectPending = FALSE
    /\ storageFault = FALSE
    /\ escaped = FALSE
    /\ lastOp = NoOp
    /\ before = <<>>
    /\ faults = 0
    /\ call = NoCall
    /\ result = NoResult

\* first render of the provider: the useState initializer reads the slot
Mount ==
    /\ ~mounted
    /\ \E getItemThrows \in Throws :
         LET r == useStateInitializer(storage, getItemThrows) IN
         /\ storageFault' = getItemThrows
         /\ faults' = faults + (IF getItemThrows THEN 1 ELSE 0)
         /\ cartItems' = IF r.threw THEN <<>> ELSE r.v.a
         /\ escaped' = (r.threw \/ RenderThrows(cartItems'))
         /\ mounted' = ~escaped'
         /\ effectPending' = ~escaped'
         /\ ctx' = IF r.threw THEN NoProviderValue ELSE ProviderValue(cartItems')
    /\ isOpen' = FALSE
    /\ lastOp' = [op |-> "mount", id |-> Undefined]
    /\ before' = <<>>
    /\ UNCHANGED <<storage, call, result>>

\* the effect of useLocalStorage runs after the commit; an exception that
\* leaves the effect takes the provider's subtree down
PersistEffect ==
    /\ mounted /\ effectPending
    /\ \E setItemThrows \in Throws :
         LET r == useEffectCallback(storage, cartItems, setItemThrows) IN
         /\ storageFault' = setItemThrows
         /\ faults' = faults + (IF setItemThrows THEN 1 ELSE 0)
         /\ escaped' = r.threw
         /\ storage' = IF r.threw THEN storage ELSE r.v
         /\ mounted' = ~r.threw
         /\ cartItems' = IF r.threw THEN <<>> ELSE cartItems
         /\ ctx' = IF r.threw THEN NoProviderValue ELSE ctx
    /\ effectPending' = FALSE
    /\ UNCHANGED <<isOpen, lastOp, before, call, result>>

\* setCartItems(updater) and the render it causes; a render that throws is
\* never committed: its effect does not run and the tree is taken down, and
\* cartItems and ctx keep what that last render computed
SetCartItems(op, id, next) ==
    /\ mounted /\ ~effectPending
    /\ cartItems' = next
    /\ ctx' = ProviderValue(cartItems')
    /\ escaped' = RenderThrows(cartItems')
    /\ mounted' = ~escaped'
    /\ effectPending' = ~escaped'
    /\ lastOp' = [op |-> op, id |-> id]
    /\ before' = cartItems
    /\ UNCHANGED <<storage, isOpen, storageFault, faults, call, result>>

IncreaseCartQuantity ==
    \E i \in Ids :
        /\ getItemQuantity(cartItems, Num(i)).n < MaxQty
        /\ SetCartItems("increase", Num(i), increaseUpdater(cartItems, Num(i)))

DecreaseCartQuantity ==
    \E i \in Ids :
        SetCartItems("decrease", Num(i), decreaseUpdater(cartItems, Num(i)))

RemoveFromCart ==
    \E i \in Ids :
        SetCartItems("remove", Num(i), removeUpdater(cartItems, Num(i)))

\* getItemQuantity(id), called by a rendered child: a read of cartItems, no
\* setter is called and nothing is rendered again
GetItemQuantity ==
    \E i \in Ids :
        /\ mounted /\ ~effectPending
        /\ lastOp' = [op |-> "getItemQuantity", id |-> Num(i)]
        /\ before' = cartItems
        /\ UNCHANGED <<storage, mounted, isOpen, cartItems, ctx, effectPending,
                       storageFault, escaped, faults, call, result>>

\* setIsOpen whose render runs the useState initializer again
SetIsOpenRereadingStorage(b) ==
    /\ mounted /\ ~effectPending
    /\ isOpen' = b
    /\ cartItems' = useStateInitializer(storage, FALSE).v.a
    /\ ctx' = ProviderValue(cartItems')
    /\ escaped' = RenderThrows(cartItems')
    /\ mounted' = ~escaped'
    /\ UNCHANGED <<storage, effectPending, storageFault,
                   lastOp, before, faults, call, result>>

\* setIsOpen that also empties the collection
SetIsOpenDroppingCart(b) ==
    /\ mounted /\ ~effectPending
    /\ isOpen' = b
    /\ cartItems' = <<>>
    /\ ctx' = ProviderValue(cartItems')
    /\ escaped' = RenderThrows(cartItems')
    /\ mounted' = ~escaped'
    /\ UNCHANGED <<storage, effectPending, storageFault,
                   lastOp, before, faults, call, result>>

\* setIsOpen(b) and the render it causes
SetIsOpen(b) ==
    /\ mounted /\ ~effectPending
    /\ isOpen' = b
    /\ ctx' = ProviderValue(cartItems)
    /\ escaped' = RenderThrows(cartItems)
    /\ mounted' = ~escaped'
    /\ UNCHANGED <<storage, cartItems, effectPending, storageFault,
                   lastOp, before, faults, call, result>>

OpenCart == SetIsOpen(TRUE)

CloseCart == SetIsOpen(FALSE)

\* the page is left: the provider's state is dropped, the slot stays
Unmount ==
    /\ mounted /\ ~effectPending
    /\ mounted' = FALSE
    /\ isOpen' = FALSE
    /\ cartItems' = <<>>
    /\ ctx' = NoProviderValue
    /\ lastOp' = NoOp
    /\ before' = <<>>
    /\ UNCHANGED <<storage, effectPending, storageFault, escaped, faults, call, result>>

\* ------------------------------------------- guards called on their own
FieldVals ==
    {Undefined, Null, Str("1"), Num(-1), Num(0), Num(1), Num(2), Half(0), Half(1)}

GuardInputs ==
    {Obj(<<"id", "quantity">>, <<a, b>>) : a \in FieldVals, b \in FieldVals}
    \cup {Obj(<<"id">>, <<a>>) : a \in FieldVals}
    \cup {Obj(<<"quantity">>, <<b>>) : b \in FieldVals}
    \cup {Obj(<<>>, <<>>), Undefined, Null, Num(1), Str("item"), Arr(<<>>),
          Arr(<<Num(1), Num(1)>>)}

\* { id, name, price, imgUrl }
StoreItem(id, name, price, imgUrl) ==
    Obj(<<"id", "name", "price", "imgUrl">>, <<id, name, price, imgUrl>>)

Img == Str("/imgs/book.jpg")

StoreElems ==
    {StoreItem(Num(1), Str("Book"), Num(2), Img),
     StoreItem(Num(2), Str(" Car "), Num(3), Img),
     StoreItem(Num(1), Str("Sun"), Half(0), Img),
     StoreItem(Num(2), Str("Book"), Num(0), Img),
     StoreItem(Num(0), Str("Book"), Num(2), Img),
     StoreItem(Num(-1), Str("Book"), Num(2), Img),
     StoreItem(Half(1), Str("Book"), Num(2), Img),
     StoreItem(Str("1"), Str("Book"), Num(2), Img),
     StoreItem(Num(1), Str(" "), Num(2), Img),
     StoreItem(Num(1), Str(""), Num(2), Img),
     StoreItem(Num(1), Num(7), Num(2), Img),
     StoreItem(Num(1), Str("Book"), Num(-1), Img),
     StoreItem(Num(1), Str("Book"), NaN, Img),
     StoreItem(Num(1), Str("Book"), Str("2"), Img),
     StoreItem(Num(1), Str("Book"), Num(2), Str(" ")),
     StoreItem(Num(1), Str("Book"), Num(2), Null),
     Obj(<<"id", "name", "price">>, <<Num(1), Str("Book"), Num(2)>>),
     Obj(<<"imgUrl", "price", "name", "id", "stock">>,
         <<Img, Num(2), Str("Book"), Num(2), Num(5)>>),
     CartItem(Num(1), Num(1)),
     Null}

\* the records arrays of more than one element are made of
StoreArrayElems ==
    {StoreItem(Num(1), Str("Book"), Num(2), Img),
     StoreItem(Num(2), Str(" Car "), Num(3), Img),
     StoreItem(Num(1), Str("Sun"), Half(0), Img),
     Obj(<<"imgUrl", "price", "name", "id", "stock">>,
         <<Img, Num(2), Str("Book"), Num(2), Num(5)>>),
     StoreItem(Num(0), Str("Book"), Num(2), Img),
     StoreItem(Num(1), Str(" "), Num(2), Img),
     Null}

StoreInputs ==
    {Arr(a) : a \in UNION {[1..n -> StoreArrayElems] : n \in 0..MaxLen}}
    \cup {Arr(<<e>>) : e \in StoreElems}
    \cup StoreElems
    \cup {Undefined, Str("items"), Num(1), Obj(<<>>, <<>>)}

\* value without its member key
Omit(value, key) ==
    LET keep == SelectSeq([i \in 1..Len(value.k) |-> i], LAMBDA i : value.k[i] # key)
    IN Obj([i \in 1..Len(keep) |-> value.k[keep[i]]],
           [i \in 1..Len(keep) |-> value.v[keep[i]]])

ContextQuantities ==
    {Num(0), Num(2), Num(-1), Half(0), Half(-1), NaN, Infinity, Str("2"), Null}

ContextCarts ==
    {Arr(<<>>), Arr(<<CartItem(Num(1), Num(2))>>), Arr(<<CartItem(Num(1), Num(0))>>),
     Arr(<<CartItem(Num(1), Num(1)), Null>>), Null, Str("[]"),
     Obj(<<"length">>, <<Num(0)>>)}

ContextInputs ==
    LET full == {ContextObject(q, c) : q \in ContextQuantities, c \in ContextCarts}
    IN full
       \cup {Omit(o, o.k[i]) : o \in full, i \in 1..(Len(requiredMethods) + 2)}
       \cup {SpreadWith(o, requiredMethods[m], v) :
                 o \in full, m \in 1..Len(requiredMethods), v \in {Str("openCart"), Null}}
       \cup {Omit(Omit(o, requiredMethods[1]), requiredMethods[2]) : o \in full}
       \cup {Obj(<<>>, <<>>), Undefined, Null, Arr(<<>>), Fn("openCart"), Num(1)}

ProvidedCarts ==
    {<<>>, <<CartItem(Num(1), Num(1))>>, <<CartItem(Num(1), Num(1)), CartItem(Num(1), Num(0))>>,
     <<CartItem(Half(3), Num(1))>>, <<CartItem(Num(-5), Num(1))>>}

PropsInputs ==
    StoreInputs \cup {StoreItem(Num(1), Str("Book"), Infinity, Img),
                      StoreItem(NaN, Str("Book"), Num(2), Img),
                      StoreItem(Num(1), Str("Book"), Half(-1), Img),
                      Arr(<<>>), Fn("StoreItem")}

InitialValues ==
    {Arr(<<>>), Arr(<<CartItem(Num(1), Num(1))>>),
     FnReturning(Arr(<<>>)), FnReturning(Arr(<<CartItem(Num(2), Num(1))>>))}

InitializerSlots ==
    {Absent,
     SlotOf(<<CartItem(Num(1), Num(2))>>),
     SlotOf(<<CartItem(Num(1), Num(0))>>),
     [present |-> TRUE, text |-> JSONstringify(Obj(<<"not">>, <<Str("an array")>>))],
     [present |-> TRUE, text |-> <<TWord("undefined")>>]}

\* T extends { id: number }: cart lines and store records
LookupElems ==
    {CartItem(Num(1), Num(1)), CartItem(Num(1), Num(2)), CartItem(Num(2), Num(1)),
     CartItem(NaN, Num(1)), StoreItem(Num(2), Str("Book"), Num(2), Img)}

LookupCollections == UNION {[1..n -> LookupElems] : n \in 0..MaxLen}

LookupIds == {Num(1), Num(2), Num(3), Half(1), NaN}

DefaultValues == {CartItem(Num(9), Num(1)), Undefined, Null}

AnyValues ==
    {Undefined, Null, Num(0), Num(1), NaN, Bool(FALSE), Bool(TRUE), Str(""), Str("null"),
     Arr(<<>>), Arr(<<Null>>), Obj(<<>>, <<>>), Fn("openCart")}

\* what useShoppingCart() hands to ShoppingCart: lines that pass isCartItemArray
TotalCarts ==
    UNION {[1..n -> {CartItem(Num(1), Num(2)), CartItem(Num(1), Num(1)),
                     CartItem(Num(2), Num(1)), CartItem(Num(3), Num(1)),
                     Obj(<<"quantity", "id", "note">>, <<Num(3), Num(2), Str("gift")>>)}]
           : n \in 0..MaxLen}

\* what data/storeItems.ts exports: arrays that pass isStoreItemArray
Catalogs == {c.a : c \in {v \in StoreInputs : isStoreItemArray(v)}}

\* T | (() => T)
LazyInputs ==
    AnyValues \cup {FnReturning(v) : v \in {Arr(<<>>), Num(0), Undefined, FnReturning(Num(1))}}

GuardCalls ==
    {[fn |-> "isCartItem", arg |-> v] : v \in GuardInputs}
    \cup {[fn |-> "isStoreItemArray", arg |-> v] : v \in StoreInputs}
    \cup {[fn |-> "validateStoreItems", arg |-> v] : v \in StoreInputs}
    \cup {[fn |-> "storeItems", arg |-> v] : v \in StoreInputs}
    \cup {[fn |-> "isValidStoreItemProps", arg |-> v] : v \in PropsInputs}
    \cup {[fn |-> "resolveValue", arg |-> v] : v \in LazyInputs}
    \cup {[fn |-> "useLocalStorage", stored |-> st, getItemThrows |-> g, initialValue |-> v] :
              st \in InitializerSlots, g \in BOOLEAN, v \in InitialValues}
    \cup {[fn |-> "isShoppingCartContext", arg |-> v] : v \in ContextInputs}
    \cup {[fn |-> "assertShoppingCartContext", arg |-> v] : v \in ContextInputs}
    \cup {[fn |-> f, items |-> c, id |-> i] :
              f \in {"hasItemWithId", "findByIdOrThrow"},
              c \in LookupCollections, i \in LookupIds}
    \cup {[fn |-> "findByIdOrDefault", items |-> c, id |-> i, defaultValue |-> d] :
              c \in LookupCollections, i \in LookupIds, d \in DefaultValues}
    \cup {[fn |-> f, arg |-> v] : f \in {"isNullish", "isDefined", "exists"}, v \in AnyValues}
    \cup {[fn |-> "total", cartItems |-> c, storeItems |-> s] :
              c \in TotalCarts, s \in Catalogs}
    \cup {[fn |-> "useShoppingCart", arg |-> v] :
              v \in {NoProviderValue} \cup {ProviderValue(c) : c \in ProvidedCarts}}

GuardInit ==
    /\ storage = Absent
    /\ mounted = FALSE
    /\ isOpen = FALSE
    /\ cartItems = <<>>
    /\ ctx = NoProviderValue
    /\ effectPending = FALSE
    /\ storageFault = FALSE
    /\ escaped = FALSE
    /\ lastOp = NoOp
    /\ before = <<>>
    /\ faults = 0
    /\ call \in GuardCalls
    /\ result = NoResult

Returns(out) ==
    /\ ~result.done
    /\ result' = [done |-> TRUE, out |-> out]
    /\ UNCHANGED <<storage, mounted, isOpen, cartItems, ctx, effectPending,
                   storageFault, escaped, lastOp, before, faults, call>>

CallIsCartItem ==
    /\ call.fn = "isCartItem"
    /\ Returns(isCartItem(call.arg))

CallIsStoreItemArray ==
    /\ call.fn = "isStoreItemArray"
    /\ Returns(isStoreItemArray(call.arg))

CallValidateStoreItems ==
    /\ call.fn = "validateStoreItems"
    /\ Returns(validateStoreItems(call.arg))

\* data/storeItems.ts is evaluated: call.arg is what ./items.json holds
LoadStoreItems ==
    /\ call.fn = "storeItems"
    /\ LET storeItems == validateStoreItems(call.arg)
       IN Returns(IF storeItems.threw THEN [threw |-> TRUE]
                  ELSE [threw |-> FALSE, storeItems |-> storeItems.v])

CallIsShoppingCartContext ==
    /\ call.fn = "isShoppingCartContext"
    /\ ~result.done
    /\ result' = [done |-> TRUE, out |-> isShoppingCartContext(call.arg),
                  console |-> isShoppingCartContextErrors(call.arg)]
    /\ UNCHANGED <<storage, mounted, isOpen, cartItems, ctx, effectPending,
                   storageFault, escaped, lastOp, before, faults, call>>

CallAssertShoppingCartContext ==
    /\ call.fn = "assertShoppingCartContext"
    /\ Returns(assertShoppingCartContext(call.arg))

\* a component calls useShoppingCart(); call.arg is what the nearest
\* Provider above it holds, if there is one
CallUseShoppingCart ==
    /\ call.fn = "useShoppingCart"
    /\ Returns(useShoppingCart(call.arg))

CallHasItemWithId ==
    /\ call.fn = "hasItemWithId"
    /\ Returns(hasItemWithId(call.items, call.id))

CallFindByIdOrThrow ==
    /\ call.fn = "findByIdOrThrow"
    /\ Returns(findByIdOrThrow(call.items, call.id))

CallFindByIdOrDefault ==
    /\ call.fn = "findByIdOrDefault"
    /\ Returns(findByIdOrDefault(call.items, call.id, call.defaultValue))

CallIsNullish ==
    /\ call.fn = "isNullish"
    /\ Returns(isNullish(call.arg))

CallIsDefined ==
    /\ call.fn = "isDefined"
    /\ Returns(isDefined(call.arg))

CallExists ==
    /\ call.fn = "exists"
    /\ Returns(exists(call.arg))

\* ShoppingCart computes its total
CallTotal ==
    /\ call.fn = "total"
    /\ Returns(total(call.cartItems, call.storeItems, 1, Num(0)))

CallIsValidStoreItemProps ==
    /\ call.fn = "isValidStoreItemProps"
    /\ Returns(isValidStoreItemProps(call.arg))

CallResolveValue ==
    /\ call.fn = "resolveValue"
    /\ Returns(resolveValue(call.arg))

\* a component mounts with useLocalStorage(key, initialValue, isCartItemArray)
CallUseLocalStorage ==
    /\ call.fn = "useLocalStorage"
    /\ Returns(useLocalStorageInitializer(call.stored, call.getItemThrows, call.initialValue))

GuardNext ==
    \/ CallIsCartItem
    \/ CallIsStoreItemArray
    \/ CallValidateStoreItems
    \/ LoadStoreItems
    \/ CallIsShoppingCartContext
    \/ CallAssertShoppingCartContext
    \/ CallUseShoppingCart
    \/ CallHasItemWithId
    \/ CallFindByIdOrThrow
    \/ CallFindByIdOrDefault
    \/ CallIsNullish
    \/ CallIsDefined
    \/ CallExists
    \/ CallTotal
    \/ CallIsValidStoreItemProps
    \/ CallResolveValue
    \/ CallUseLocalStorage

GuardSpec == GuardInit /\ [][GuardNext]_vars

Next ==
    \/ Mount
    \/ PersistEffect
    \/ IncreaseCartQuantity
    \/ DecreaseCartQuantity
    \/ RemoveFromCart
    \/ GetItemQuantity
    \/ OpenCart
    \/ CloseCart
    \/ Unmount

Spec == Init /\ [][Next]_vars

\* runs that start from an empty slot, a corrupted slot or a stored cart
PersistInit ==
    /\ Init
    /\ storage \in {Absent,
                    [present |-> TRUE, text |-> <<TWord("undefined")>>],
                    [present |-> TRUE, text |-> JSONstringify(Obj(<<"not">>, <<Str("an array")>>))],
                    SlotOf(<<CartItem(Num(1), Num(0))>>),
                    SlotOf(<<CartItem(Num(1), Num(1)), CartItem(Num(1), Num(2))>>),
                    SlotOf(<<Obj(<<"quantity", "id", "note">>,
                                 <<Num(1), Num(2), Str("gift")>>)>>)}

\* the effect is run by the scheduler once it is pending
FairSpec == PersistInit /\ [][Next]_vars /\ WF_vars(PersistEffect)

\* ------------------------------------- operations called with any number
\* the operations take id: number; nothing stops a caller from passing a
\* negative number (-5) or a non-integer (3 + 1/2)
InvalidIds == {Num(-5), Half(3)}

IncreaseCartQuantityInvalidId ==
    \E id \in InvalidIds :
        /\ getItemQuantity(cartItems, id).n < MaxQty
        /\ SetCartItems("increase", id, increaseUpdater(cartItems, id))

DecreaseCartQuantityInvalidId ==
    \E id \in InvalidIds :
        SetCartItems("decrease", id, decreaseUpdater(cartItems, id))

RemoveFromCartInvalidId ==
    \E id \in InvalidIds :
        SetCartItems("remove", id, removeUpdater(cartItems, id))

BoundaryInit ==
    /\ Init
    /\ storage \in {Absent, SlotOf(<<CartItem(Num(1), Num(1))>>)}

BoundaryNext ==
    \/ Next
    \/ IncreaseCartQuantityInvalidId
    \/ DecreaseCartQuantityInvalidId
    \/ RemoveFromCartInvalidId

BoundarySpec == BoundaryInit /\ [][BoundaryNext]_vars

\* ------------------------------------------ the slot written from outside
\* slots the useState initializer cannot use: text that does not parse, a
\* value that is no array, an array with a line of quantity 0
InvalidSlots ==
    {[present |-> TRUE, text |-> <<TWord("undefined")>>],
     [present |-> TRUE, text |-> JSONstringify(Obj(<<"not">>, <<Str("an array")>>))],
     SlotOf(<<CartItem(Num(1), Num(0))>>)}

\* another tab, or the user in the developer tools, writes the key while the
\* provider is mounted
StorageReplaced ==
    \E slot \in InvalidSlots :
        /\ mounted
        /\ storage # slot
        /\ storage' = slot
        /\ lastOp' = [op |-> "storageReplaced", id |-> Undefined]
        /\ before' = cartItems
        /\ UNCHANGED <<mounted, isOpen, cartItems, ctx, effectPending,
                       storageFault, escaped, faults, call, result>>

ReplaceInit ==
    /\ Init
    /\ storage \in {Absent, SlotOf(<<CartItem(Num(1), Num(1))>>)}

ReplaceNext ==
    \/ Next
    \/ StorageReplaced

ReplaceSpec == ReplaceInit /\ [][ReplaceNext]_vars

\* ------------------------------------------------------- the page reloaded
\* the page is reloaded: the provider is dropped as in Unmount and built again
\* as in Mount, over the slot as the last effect left it
Reload ==
    /\ mounted /\ ~effectPending
    /\ \E getItemThrows \in Throws :
         LET r == useStateInitializer(storage, getItemThrows) IN
         /\ storageFault' = getItemThrows
         /\ faults' = faults + (IF getItemThrows THEN 1 ELSE 0)
         /\ cartItems' = IF r.threw THEN <<>> ELSE r.v.a
         /\ escaped' = (r.threw \/ RenderThrows(cartItems'))
         /\ mounted' = ~escaped'
         /\ effectPending' = ~escaped'
         /\ ctx' = IF r.threw THEN NoProviderValue ELSE ProviderValue(cartItems')
    /\ isOpen' = FALSE
    /\ lastOp' = [op |-> "reload", id |-> Undefined]
    /\ before' = cartItems
    /\ UNCHANGED <<storage, call, result>>

\* the first visit: nothing under the key
ReloadInit ==
    /\ Init
    /\ storage = Absent

ReloadNext ==
    \/ Next
    \/ Reload

ReloadSpec == ReloadInit /\ [][ReloadNext]_vars

\* -------------------------------------------------------------- properties
IdOf(item) == Get(item, "id")
QuantityOf(item) == Get(item, "quantity")

\* the {id, quantity} pairs of a collection
Pairs(items) == {<<IdOf(items[i]), QuantityOf(items[i])>> : i \in 1..Len(items)}

PositiveInteger(value) == value.t = "number" /\ ~value.frac /\ value.n >= 1

UniqueIds(items) ==
    \A i, j \in 1..Len(items) : IdOf(items[i]) = IdOf(items[j]) => i = j

WellFormed(items) ==
    /\ UniqueIds(items)
    /\ \A i \in 1..Len(items) : PositiveInteger(QuantityOf(items[i]))

RECURSIVE SumOfQuantities(_, _)
SumOfQuantities(items, n) ==
    IF n = 0 THEN 0 ELSE QuantityOf(items[n]).n + SumOfQuantities(items, n - 1)

CartOps == {"increase", "decrease", "remove"}

\* C1: in every reachable state every line of the cart collection has an
\* integer quantity >= 1.
C1_QuantityAtLeastOne ==
    \A i \in 1..Len(cartItems) : PositiveInteger(QuantityOf(cartItems[i]))

\* C2: in every reachable state no two lines of the cart collection share an id.
C2_UniqueIds == UniqueIds(cartItems)

\* C3: whenever the context value is provided, its cartQuantity is the sum of
\* the quantities of its cartItems, and those are the current collection.
C3_CartQuantityIsSum ==
    ctx.provided =>
        /\ ctx.cartItems = cartItems
        /\ ctx.cartQuantity = Num(SumOfQuantities(ctx.cartItems, Len(ctx.cartItems)))

C3_Witness ==
    /\ ctx.provided
    /\ lastOp.op = "decrease"
    /\ Len(ctx.cartItems) >= 2
    /\ ctx.cartQuantity.n >= 2

\* C4: decreaseCartQuantity(id) on a collection where getItemQuantity(id) is 1
\* leaves no line with that id, and getItemQuantity(id) is 0 afterwards.
C4_DecreaseAtOneRemoves ==
    (lastOp.op = "decrease" /\ getItemQuantity(before, lastOp.id) = Num(1)) =>
        /\ ~hasItemWithId(cartItems, lastOp.id)
        /\ \A i \in 1..Len(cartItems) : IdOf(cartItems[i]) # lastOp.id
        /\ getItemQuantity(cartItems, lastOp.id) = Num(0)

C4_Witness ==
    /\ lastOp.op = "decrease"
    /\ getItemQuantity(before, lastOp.id) = Num(1)
    /\ Len(before) = 2
    /\ Len(cartItems) = 1

\* C5: on a well-formed collection, increaseCartQuantity(id) followed by
\* decreaseCartQuantity(id) gives a collection with the same {id, quantity}
\* pairs as the one before the increase.
C5_IncreaseThenDecrease ==
    [][(/\ lastOp.op = "increase"
        /\ lastOp'.op = "decrease"
        /\ lastOp'.id = lastOp.id
        /\ WellFormed(before))
       => Pairs(cartItems') = Pairs(before)]_vars

C5_Witness ==
    /\ lastOp.op = "decrease"
    /\ WellFormed(cartItems)
    /\ before = increaseUpdater(cartItems, lastOp.id)
    /\ (cartItems = <<>> \/ hasItemWithId(cartItems, lastOp.id))

\* C6: the read path lets no exception escape; the collection it yields is
\* the parsed stored value when the read succeeds, the text parses and the
\* parsed value passes isCartItemArray, and the initial value [] otherwise.
C6_ReadPath ==
    lastOp.op = "mount" =>
        /\ mounted
        /\ effectPending =>
             LET parsed == JSONparse(storage.text)
                 usable == /\ ~storageFault
                           /\ storage.present
                           /\ parsed.ok
                           /\ isCartItemArray(parsed.v)
             IN /\ ~escaped
                /\ usable => cartItems = parsed.v.a
                /\ ~usable => cartItems = <<>>

C6_Witness ==
    /\ lastOp.op = "mount"
    /\ effectPending
    /\ storage = [present |-> TRUE,
                  text |-> <<P("{"), TStr("not"), P(":"), TStr("an array"), P("}")>>]
    /\ cartItems = <<>>

\* C7: when setItem throws in the persist step no exception leaves the
\* effect, the provider stays mounted, the in-memory collection is kept and
\* the slot keeps its old text.
C7_WriteFailureIsSwallowed ==
    [][(effectPending /\ ~effectPending' /\ storageFault')
       => /\ ~escaped'
          /\ mounted'
          /\ cartItems' = cartItems
          /\ ctx' = ctx
          /\ storage' = storage]_vars

C7_Witness ==
    /\ mounted /\ ~effectPending /\ storageFault /\ ~escaped
    /\ lastOp.op = "increase"
    /\ cartItems # before
    /\ storage # SlotOf(cartItems)

\* C8: once the persist effect of a state change has run without a write
\* failure the slot holds the serialization of the in-memory collection, and
\* a pending persist effect always runs.
C8_PersistedOnEveryMutation ==
    /\ []((mounted /\ ~effectPending /\ ~storageFault) => storage = SlotOf(cartItems))
    /\ (effectPending ~> ~effectPending)

C8_Witness ==
    /\ mounted /\ ~effectPending /\ ~storageFault
    /\ lastOp.op = "remove"
    /\ cartItems # before
    /\ storage = SlotOf(cartItems)

\* C9: a collection that passes isCartItemArray, once written by the persist
\* step, parses back to a value that passes isCartItemArray and has the same
\* {id, quantity} pairs.
C9_RoundTrip ==
    (mounted /\ ~effectPending /\ ~storageFault /\ isCartItemArray(Arr(cartItems))) =>
        LET parsed == JSONparse(storage.text) IN
        /\ storage.present
        /\ parsed.ok
        /\ isCartItemArray(parsed.v)
        /\ Pairs(parsed.v.a) = Pairs(cartItems)

C9_Witness ==
    /\ mounted /\ ~effectPending /\ ~storageFault
    /\ lastOp.op \in CartOps
    /\ Len(cartItems) >= 2
    /\ isCartItemArray(Arr(cartItems))
    /\ \E i \in 1..Len(cartItems) : HasKey("note", cartItems[i])

\* C10: isCartItem(v) is true exactly when v is an object whose id is a
\* positive integer and whose quantity is a positive integer.
C10_IsCartItemIffPositive ==
    (call.fn = "isCartItem" /\ result.done) =>
        (result.out <=>
            /\ call.arg.t = "object"
            /\ PositiveInteger(IdOf(call.arg))
            /\ PositiveInteger(QuantityOf(call.arg)))

\* C11: isStoreItemArray(v) is true exactly when v is a non-empty array, every
\* element of v satisfies isStoreItem and no two elements have the same id.
C11_IsStoreItemArrayIff ==
    (call.fn = "isStoreItemArray" /\ result.done) =>
        (result.out <=>
            /\ call.arg.t = "array"
            /\ Len(call.arg.a) > 0
            /\ \A i \in 1..Len(call.arg.a) : isStoreItem(call.arg.a[i])
            /\ \A i, j \in 1..Len(call.arg.a) :
                   i # j => IdOf(call.arg.a[i]) # IdOf(call.arg.a[j]))

\* two valid records that share an id were given, and the guard answered
C11_Witness ==
    /\ call.fn = "isStoreItemArray"
    /\ result.done
    /\ ~result.out
    /\ call.arg.t = "array"
    /\ Len(call.arg.a) = 2
    /\ \A i \in 1..2 : isStoreItem(call.arg.a[i])
    /\ IdOf(call.arg.a[1]) = IdOf(call.arg.a[2])
    /\ call.arg.a[1] # call.arg.a[2]

\* C12: validateStoreItems(v) throws exactly when isStoreItemArray(v) is false
\* and otherwise returns v itself; the catalog data/storeItems.ts exports,
\* when the module loads at all, satisfies isStoreItemArray.
C12_ValidateStoreItems ==
    /\ (call.fn = "validateStoreItems" /\ result.done) =>
           /\ result.out.threw <=> ~isStoreItemArray(call.arg)
           /\ ~result.out.threw => result.out.v = call.arg
    /\ (call.fn = "storeItems" /\ result.done /\ ~result.out.threw) =>
           isStoreItemArray(result.out.storeItems)

\* the catalog was loaded from a file that holds two records
C12_Witness ==
    /\ call.fn = "storeItems"
    /\ result.done
    /\ ~result.out.threw
    /\ Len(result.out.storeItems.a) = 2

\* C13: isShoppingCartContext(v) is true exactly when v is a non-null object
\* whose six operations are functions, whose cartQuantity is a finite number
\* >= 0 and whose cartItems passes isCartItemArray; {} is rejected, and so is
\* a value with the six operations, cartItems [] and cartQuantity -1.
C13_IsShoppingCartContextIff ==
    (call.fn = "isShoppingCartContext" /\ result.done) =>
        /\ result.out <=>
              /\ call.arg.t = "object"
              /\ \A m \in 1..Len(requiredMethods) :
                     /\ HasKey(requiredMethods[m], call.arg)
                     /\ Get(call.arg, requiredMethods[m]).t = "function"
              /\ Get(call.arg, "cartQuantity").t = "number"
              /\ Get(call.arg, "cartQuantity").n >= 0
              /\ isCartItemArray(Get(call.arg, "cartItems"))
        /\ call.arg = Obj(<<>>, <<>>) => ~result.out
        /\ call.arg = ContextObject(Num(-1), Arr(<<>>)) => ~result.out

\* the guard answered on the six operations with cartItems [] and cartQuantity -1
C13_Witness ==
    /\ call.fn = "isShoppingCartContext"
    /\ result.done
    /\ ~result.out
    /\ call.arg = ContextObject(Num(-1), Arr(<<>>))

\* C14: useShoppingCart throws when no provider is above the caller;
\* assertShoppingCartContext(v) throws exactly when isShoppingCartContext(v)
\* is false; a value useShoppingCart returns satisfies isShoppingCartContext.
C14_UseShoppingCart ==
    /\ (call.fn = "useShoppingCart" /\ result.done) =>
           /\ ~call.arg.provided => result.out.threw
           /\ ~result.out.threw => isShoppingCartContext(result.out.v)
    /\ (call.fn = "assertShoppingCartContext" /\ result.done) =>
           (result.out.threw <=> ~isShoppingCartContext(call.arg))

\* useShoppingCart was called with no provider above and threw
C14_Witness ==
    /\ call.fn = "useShoppingCart"
    /\ result.done
    /\ ~call.arg.provided
    /\ result.out.threw

\* C15: increaseCartQuantity, decreaseCartQuantity and removeFromCart called
\* with an id that is not a positive integer return early: the collection is
\* what it was before the call and the provider stays mounted.
C15_InvalidIdLeavesCartUnchanged ==
    (lastOp.op \in CartOps /\ ~PositiveInteger(lastOp.id)) =>
        /\ cartItems = before
        /\ mounted

\* items[i] is the first element of items whose id is id
FirstMatch(items, i, id) ==
    /\ i \in 1..Len(items)
    /\ StrictEquals(IdOf(items[i]), id)
    /\ \A j \in 1..(i - 1) : ~StrictEquals(IdOf(items[j]), id)

\* C16: for every collection c of records with an id and every id,
\* hasItemWithId(c, id) equals isDefined(findById(c, id)).
C16_HasItemIffFindDefined ==
    (call.fn = "hasItemWithId" /\ result.done) =>
        (result.out <=> isDefined(findById(call.items, call.id)))

\* hasItemWithId answered true for an id whose first line is not the first element
C16_Witness ==
    /\ call.fn = "hasItemWithId"
    /\ result.done
    /\ result.out
    /\ FirstMatch(call.items, 2, call.id)

\* C17: findByIdOrThrow(c, id) throws exactly when hasItemWithId(c, id) is
\* false; when it returns, it returns what findById(c, id) returns, the first
\* element of c whose id is id.
C17_FindByIdOrThrow ==
    (call.fn = "findByIdOrThrow" /\ result.done) =>
        /\ result.out.threw <=> ~hasItemWithId(call.items, call.id)
        /\ ~result.out.threw =>
              /\ result.out.v = findById(call.items, call.id)
              /\ \E i \in 1..Len(call.items) :
                     FirstMatch(call.items, i, call.id) /\ result.out.v = call.items[i]

\* findByIdOrThrow returned the first of two elements with the same id
C17_Witness ==
    /\ call.fn = "findByIdOrThrow"
    /\ result.done
    /\ ~result.out.threw
    /\ Len(call.items) = 2
    /\ IdOf(call.items[1]) = IdOf(call.items[2])
    /\ call.items[1] # call.items[2]
    /\ result.out.v = call.items[1]

C19_NullishIsNotDefined ==
    /\ (call.fn = "isNullish" /\ result.done) =>
           /\ result.out = ~isDefined(call.arg)
           /\ result.out <=> call.arg.t \in {"null", "undefined"}
    /\ (call.fn \in {"isDefined", "exists"} /\ result.done) =>
           /\ result.out = ~isNullish(call.arg)
           /\ result.out <=> call.arg.t \notin {"null", "undefined"}

\* isNullish answered on undefined
C19_Witness ==
    /\ call.fn = "isNullish"
    /\ result.done
    /\ result.out
    /\ call.arg = Undefined

\* twice a number, an integer
Twice(value) == 2 * value.n + (IF value.frac THEN 1 ELSE 0)

\* twice the sum of price * quantity over the first n lines whose id has a
\* catalog record, the price taken from the record with that id
RECURSIVE TwiceSumInCatalog(_, _, _)
TwiceSumInCatalog(items, storeItems, n) ==
    IF n = 0 THEN 0
    ELSE TwiceSumInCatalog(items, storeItems, n - 1)
         + (IF \E k \in 1..Len(storeItems) : IdOf(storeItems[k]) = IdOf(items[n])
            THEN LET k == CHOOSE k \in 1..Len(storeItems) :
                              IdOf(storeItems[k]) = IdOf(items[n])
                 IN Twice(Get(storeItems[k], "price")) * QuantityOf(items[n]).n
            ELSE 0)

\* C20: the total computation does not throw when a cart line's id has no
\* catalog record; the total is the sum of price * quantity over the lines
\* whose id has a catalog record, the other lines contributing 0.
C20_TotalSkipsUnknownIds ==
    (call.fn = "total" /\ result.done) =>
        /\ ~result.out.threw
        /\ result.out.v.t = "number"
        /\ Twice(result.out.v) =
              TwiceSumInCatalog(call.cartItems, call.storeItems, Len(call.cartItems))
        /\ (\A i \in 1..Len(call.cartItems) :
                ~hasItemWithId(call.storeItems, IdOf(call.cartItems[i])))
              => result.out.v = Num(0)

\* a cart with a line the catalog knows and a line it does not know was totalled
C20_Witness ==
    /\ call.fn = "total"
    /\ result.done
    /\ Len(call.cartItems) = 2
    /\ hasItemWithId(call.storeItems, IdOf(call.cartItems[1]))
    /\ ~hasItemWithId(call.storeItems, IdOf(call.cartItems[2]))
    /\ ~result.out.threw
    /\ Twice(result.out.v) > 0

\* C21: for every value v, isValidStoreItemProps(v) equals isStoreItem(v).
C21_PropsGuardEqualsStoreItemGuard ==
    (call.fn = "isValidStoreItemProps" /\ result.done) =>
        (result.out = isStoreItem(call.arg))

\* what x stands for: the result of calling it when it is callable, x otherwise
Resolved(x) ==
    IF x.t = "function"
    THEN (IF "returns" \in DOMAIN x THEN x.returns ELSE Undefined)
    ELSE x

\* C22: resolveValue(x) returns the result of calling x when x is callable and
\* x itself otherwise, without throwing; useLocalStorage, whenever it falls
\* back to initialValue (nothing stored, stored value rejected, or the read
\* or the parse threw), yields initialValue resolved in the same way.
C22_CallableIsInvoked ==
    /\ (call.fn = "resolveValue" /\ result.done) =>
           /\ ~result.out.threw
           /\ result.out.v = Resolved(call.arg)
    /\ (call.fn = "useLocalStorage" /\ result.done) =>
           LET parsed == JSONparse(call.stored.text)
               usable == /\ ~call.getItemThrows
                         /\ call.stored.present
                         /\ parsed.ok
                         /\ isCartItemArray(parsed.v)
           IN /\ ~result.out.threw
              /\ usable => result.out.v = parsed.v
              /\ ~usable => result.out.v = Resolved(call.initialValue)

\* getItem threw and the callable initialValue was called in the catch clause
C22_Witness ==
    /\ call.fn = "useLocalStorage"
    /\ result.done
    /\ call.getItemThrows
    /\ call.initialValue = FnReturning(Arr(<<CartItem(Num(2), Num(1))>>))
    /\ result.out = Return(Arr(<<CartItem(Num(2), Num(1))>>))

\* C23: increaseCartQuantity(id) on a collection with no line for id appends
\* the one line {id, quantity: 1}; on a collection with a line for id it
\* raises the quantity of the lines for id by exactly 1 and adds no line; in
\* both cases getItemQuantity(id) is one more than before.
C23_IncreaseAddsOne ==
    lastOp.op = "increase" =>
        /\ getItemQuantity(cartItems, lastOp.id).n = getItemQuantity(before, lastOp.id).n + 1
        /\ (\A i \in 1..Len(before) : IdOf(before[i]) # lastOp.id) =>
              cartItems = before \o <<CartItem(lastOp.id, Num(1))>>
        /\ (\E i \in 1..Len(before) : IdOf(before[i]) = lastOp.id) =>
              /\ Len(cartItems) = Len(before)
              /\ \A i \in 1..Len(before) :
                     IdOf(before[i]) = lastOp.id =>
                        /\ IdOf(cartItems[i]) = lastOp.id
                        /\ QuantityOf(cartItems[i]).n = QuantityOf(before[i]).n + 1

\* the second increase of an item that was absent: its quantity is 2
C23_Witness ==
    /\ lastOp.op = "increase"
    /\ before = <<CartItem(lastOp.id, Num(1))>>
    /\ cartItems = <<CartItem(lastOp.id, Num(2))>>
    /\ getItemQuantity(cartItems, lastOp.id) = Num(2)

\* C24: after removeFromCart(id) no line has that id, whatever its quantity
\* was, and getItemQuantity(id) is 0; the other lines stay as they were, so
\* the call changes nothing when id was not in the collection; a second
\* removeFromCart(id) leaves the collection as the first one left it.
C24_RemoveDropsTheLine ==
    [][/\ lastOp'.op = "remove" =>
            /\ \A i \in 1..Len(cartItems') : IdOf(cartItems'[i]) # lastOp'.id
            /\ getItemQuantity(cartItems', lastOp'.id) = Num(0)
            /\ cartItems' = SelectSeq(before', LAMBDA item : IdOf(item) # lastOp'.id)
            /\ (\A i \in 1..Len(before') : IdOf(before'[i]) # lastOp'.id)
                  => cartItems' = before'
       /\ (lastOp.op = "remove" /\ lastOp' = lastOp) => cartItems' = cartItems]_vars

\* a line with quantity 2 was removed and another line stayed
C24_Witness ==
    /\ lastOp.op = "remove"
    /\ \E i \in 1..Len(before) :
          IdOf(before[i]) = lastOp.id /\ QuantityOf(before[i]) = Num(2)
    /\ \A i \in 1..Len(cartItems) : IdOf(cartItems[i]) # lastOp.id
    /\ Len(cartItems) >= 1

\* the lines of a collection whose id differs from id, in their order
OtherLines(items, id) == SelectSeq(items, LAMBDA item : IdOf(item) # id)

\* C25: increaseCartQuantity(id), decreaseCartQuantity(id) and
\* removeFromCart(id) on a well-formed collection leave every line whose id
\* differs from id exactly as it was.
C25_OtherLinesUntouched ==
    (lastOp.op \in CartOps /\ WellFormed(before)) =>
        OtherLines(cartItems, lastOp.id) = OtherLines(before, lastOp.id)

\* a line of id 1 was removed by a decrease next to a line of another id
C25_Witness ==
    /\ lastOp = [op |-> "decrease", id |-> Num(1)]
    /\ WellFormed(before)
    /\ Len(before) = 2
    /\ Len(cartItems) = 1
    /\ IdOf(cartItems[1]) # Num(1)
    /\ OtherLines(before, Num(1)) = cartItems

\* C26: while the provider stays mounted, a step of openCart or closeCart
\* that changes the visibility flag, and a call of getItemQuantity, leave the cart collection, cartQuantity and the
\* persisted value as they were.
C26_ReadsAndVisibilityKeepCart ==
    [][(mounted /\ mounted' /\ (isOpen' # isOpen \/ (lastOp'.op = "getItemQuantity" /\ lastOp' # lastOp)))
         => /\ cartItems' = cartItems
            /\ ctx'.cartQuantity = ctx.cartQuantity
            /\ ctx'.cartItems = ctx.cartItems
            /\ storage' = storage]_vars

\* the cart is open over a collection of two units that is also the stored one
C26_Witness ==
    /\ mounted
    /\ isOpen
    /\ cartItems = <<CartItem(Num(1), Num(2))>>
    /\ ctx.cartQuantity = Num(2)
    /\ storage = SlotOf(cartItems)

\* the conditions of the shared context object that a value fails, each with
\* the reason the guard names for it
Violations(value) ==
    IF TypeOf(value) # "object" \/ value = Null THEN {<<"Expected object, received">>}
    ELSE {<<"Missing required method", requiredMethods[m]>> :
              m \in {n \in 1..Len(requiredMethods) : ~HasKey(requiredMethods[n], value)}}
         \cup {<<"is not a function", requiredMethods[m]>> :
              m \in {n \in 1..Len(requiredMethods) :
                        /\ HasKey(requiredMethods[n], value)
                        /\ TypeOf(Get(value, requiredMethods[n])) # "function"}}
         \cup (IF ~HasKey("cartQuantity", value)
                THEN {<<"Missing cartQuantity property">>}
                ELSE IF TypeOf(Get(value, "cartQuantity")) # "number"
                THEN {<<"cartQuantity must be a number">>}
                ELSE IF \/ ~NumberIsFinite(Get(value, "cartQuantity"))
                        \/ LessThanZero(Get(value, "cartQuantity"))
                THEN {<<"cartQuantity must be a non-negative finite number">>}
                ELSE {})
         \cup (IF ~HasKey("cartItems", value)
                THEN {<<"Missing cartItems property">>}
                ELSE IF ~ArrayIsArray(Get(value, "cartItems"))
                THEN {<<"cartItems must be an array">>}
                ELSE IF ~isCartItemArray(Get(value, "cartItems"))
                THEN {<<"cartItems array contains invalid items">>}
                ELSE {})

\* C27: when isShoppingCartContext returns false, every condition the value
\* fails has been reported with its own named reason.
C27_EveryViolationReported ==
    (call.fn = "isShoppingCartContext" /\ result.done /\ result.out = FALSE) =>
        \A v \in Violations(call.arg) :
            \E i \in 1..Len(result.console) : result.console[i] = v

\* C28 as stated: while the provider stays mounted over a slot that holds an
\* invalid value, a render caused by openCart or closeCart exposes the empty
\* fallback.
C28_NextRenderRereadsStorage ==
    [][(mounted /\ mounted' /\ storage \in InvalidSlots /\ isOpen' # isOpen)
         => ctx'.cartItems = <<>>]_vars

\* C28 amended: the slot is read by the useState initializer on mount only.
\* While the provider stays mounted over a slot that holds an invalid value,
\* every render exposes the in-memory collection: a step that is no cart
\* operation leaves it as it was, and an increase builds on it.
C28_RenderKeepsMemory ==
    [][(mounted /\ mounted' /\ storage \in InvalidSlots)
         => /\ ctx'.cartItems = cartItems'
            /\ (~effectPending /\ effectPending') \/ cartItems' = cartItems
            /\ (~effectPending /\ effectPending' /\ lastOp'.op = "increase")
                  => /\ Len(cartItems') >= Len(cartItems)
                     /\ getItemQuantity(cartItems', lastOp'.id).n
                          = getItemQuantity(cartItems, lastOp'.id).n + 1]_vars

\* an increase was rendered over the replaced slot and built on the line in
\* memory, before the effect wrote the slot again
C28_Witness ==
    /\ mounted
    /\ storage \in InvalidSlots
    /\ effectPending
    /\ lastOp = [op |-> "increase", id |-> Num(1)]
    /\ before = <<CartItem(Num(1), Num(1))>>
    /\ ctx.cartItems = <<CartItem(Num(1), Num(2))>>

\* a slot whose text does not parse or parses to what isCartItemArray refuses
Corrupted(slot) ==
    /\ slot.present
    /\ LET parsed == JSONparse(slot.text)
       IN ~parsed.ok \/ ~isCartItemArray(parsed.v)

\* C29: a mount over a corrupted slot leaves the provider mounted with an
\* empty in-memory collection, and with no cart operation the persist effect
\* then runs and, unless its write fails, leaves the serialization of the
\* empty collection in the slot.
C29_CorruptedCartResets ==
    /\ []((lastOp.op = "mount" /\ Corrupted(storage)) => (mounted /\ cartItems = <<>>))
    /\ (lastOp.op = "mount" /\ Corrupted(storage) /\ effectPending)
          ~> (/\ ~effectPending
              /\ lastOp.op = "mount"
              /\ cartItems = <<>>
              /\ storageFault \/ storage = SlotOf(<<>>))

\* just after a mount that read an array holding a line of quantity 0
C29_Witness ==
    /\ lastOp.op = "mount"
    /\ mounted
    /\ effectPending
    /\ ~storageFault
    /\ storage = SlotOf(<<CartItem(Num(1), Num(0))>>)
    /\ cartItems = <<>>

====
